---- MODULE Spec2Model ----
(***************************************************************************)
(* A model of volspy's VolumeRenderer (src/volspy/render.py): the color    *)
(* mode state machine, clip-plane reconstruction, the uniform broadcast    *)
(* and the multi-pass draw calls draw_volume and draw_slice with their     *)
(* picking protocol.                                                       *)
(*                                                                         *)
(* Conventions.  Python's None is the empty sequence <<>> and a present    *)
(* value x is <<x>>.  A real number is a reduced fraction <<num, den>>.    *)
(* A byte vector (a texel, a pick readback) is a 4-tuple of 0..255.        *)
(* Positions of the cube are kept in half units (a corner is at +-1,       *)
(* meaning +-0.5), so that every value the clipper computes is an integer. *)
(***************************************************************************)
EXTENDS Integers, Sequences, FiniteSets, TLC

VARIABLES
    nmodes,            \* len(self.prog_ray_casters) = len(self.prog_vol_slicers)
    pick_glsl_index,   \* self.pick_glsl_index: <<>> or <<index>>
    color_mode,        \* self.color_mode
    anti_view,         \* self.anti_view: <<>> or <<matrix>>
    boundary_view,     \* self.prog_boundary['u_view']
    cube_verts,        \* contents of the vertex buffer self.cube_verts
    volume_faces,      \* contents of the index buffer self.volume_faces
    slice_faces,       \* contents of the index buffer self.slice_faces
    slicer_uniforms,   \* uniforms of self.prog_vol_slicers[i]
    caster_uniforms,   \* uniforms of self.prog_ray_casters[i]
    uniform_changes,   \* self.uniform_changes: name -> <<value, timestamp>>
    now,               \* the clock datetime.datetime.now() reads
    gl,                \* global raster state of the GL context
    entry_texture,     \* what the entry map holds
    exit_texture,      \* what the exit map holds
    pick_texture,      \* the texel of the 1x1 pick target
    pc,                \* position inside a draw call ("idle" outside one)
    call,              \* arguments of the draw call in progress
    glsl_index,        \* local glsl_index of the draw call
    pick_out,          \* local pick_out of the draw call: <<>> or <<readback>>
    start_mode,        \* history: color_mode when the draw call began
    log,               \* history: the events of the draw call in progress
    shader,            \* one invocation of the ray-cast fragment shader's main()
    last,              \* history: the last public operation and how it ended
    cyc                \* history: the run of set_color_mode(None) calls

vars == <<nmodes, pick_glsl_index, color_mode, anti_view, boundary_view,
          cube_verts, volume_faces, slice_faces, slicer_uniforms,
          caster_uniforms, uniform_changes, now, gl, entry_texture,
          exit_texture, pick_texture, pc, call, glsl_index,
          pick_out, start_mode, log, shader, last, cyc>>

-----------------------------------------------------------------------------
(* Bounds of the model and constants of the program.                       *)

\* largest number of caller-supplied color modes (frag_glsl_dicts)
MaxModes == 2

\* set_color_mode(i) is tried with every i in -ModeArgSpan..ModeArgSpan
ModeArgSpan == 5

\* number of built-in blend descriptors (render.py 487-494)
DefaultModes == 3

\* the divisor of the pick readback normalisation (render.py 634, 686)
ByteMax == 255

\* the gain multiplier of slice programs in set_uniform (render.py 582)
SliceGainFactor == 4

\* RecentUniforms(limit=5, age_s=10), as VolumeRenderer constructs it (render.py 429, 463)
limit == 5

age_s == 10

\* the clock is advanced by these numbers of seconds, up to MaxClock
ClockSteps == { 5, 6 }

MaxClock == 11

\* maxtexsize = float(os.getenv('MAX_3D_TEXTURE_WIDTH', 1024)), scaled down
maxtexsize == 2

\* the levels of a channel of the entry and exit maps: a texel channel is
\* one of 0/TexGrid .. TexGrid/TexGrid (16-bit channels, scaled down)
TexGrid == 2

None == <<>>

Some(x) == <<x>>

-----------------------------------------------------------------------------
(* Numbers.                                                                *)

Abs(x) == IF x < 0 THEN -x ELSE x

RECURSIVE Gcd(_, _)
Gcd(a, b) == IF b = 0 THEN a ELSE Gcd(b, a % b)

\* the real number n/d, d > 0, as a reduced fraction
Frac(n, d) ==
    LET g == Gcd(Abs(n), d)
    IN  <<n \div g, d \div g>>

FracMulInt(f, k) == Frac(f[1] * k, f[2])

\* the remainder of a division that truncates toward zero (C's i % n)
TruncatingMod(i, n) == IF i >= 0 THEN i % n ELSE -((-i) % n)

\* Python's i % n for n > 0: the result has the sign of n
PyMod(i, n) == i - n * (i \div n)

\* the exact square root of a perfect square
ISqrt(n) == CHOOSE r \in 0..n : r * r = n

Dot3(a, b) == a[1] * b[1] + a[2] * b[2] + a[3] * b[3]

\* np.linalg.norm of the first three components
Norm3(a) == ISqrt(Dot3(a, a))

\* np.dot(v, M) for a row vector v
VecMat(v, M) == [j \in 1..4 |-> v[1] * M[1][j] + v[2] * M[2][j] + v[3] * M[3][j] + v[4] * M[4][j]]

\* np.dot(M, v) for a column vector v
MatVec(M, v) == [i \in 1..4 |-> M[i][1] * v[1] + M[i][2] * v[2] + M[i][3] * v[3] + M[i][4] * v[4]]

Eye4 == << <<1, 0, 0, 0>>, <<0, 1, 0, 0>>, <<0, 0, 1, 0>>, <<0, 0, 0, 1>> >>

\* np.eye(4) rotated by 180 degrees about the x axis
cube_model == << <<1, 0, 0, 0>>, <<0, -1, 0, 0>>, <<0, 0, -1, 0>>, <<0, 0, 0, 1>> >>

\* an inverse model matrix without the half turn
AntiModelNotTurned == Eye4

\* np.eye(4) rotated by -180 degrees about the x axis
cube_anti_model == << <<1, 0, 0, 0>>, <<0, -1, 0, 0>>, <<0, 0, -1, 0>>, <<0, 0, 0, 1>> >>

-----------------------------------------------------------------------------
(* The Geometry Clipper, make_cube_clipped(plane).  A vertex is its        *)
(* position in half units; a face of the solid is the polygon (its set of  *)
(* vertices) that is left of one face of the cube; the cap is the polygon  *)
(* lying on the plane.                                                     *)

Corners == {<<x, y, z>> : x \in {-1, 1}, y \in {-1, 1}, z \in {-1, 1}}

\* twice the signed distance of p to the plane (A,B,C,D)
Dist2(p, plane) == plane[1] * p[1] + plane[2] * p[2] + plane[3] * p[3] + 2 * plane[4]

\* the twelve edges of the cube, each in both directions
CubeEdges ==
    {pq \in Corners \X Corners :
        Cardinality({i \in 1..3 : pq[1][i] # pq[2][i]}) = 1}

\* the point where the edge p-q crosses the plane, by linear interpolation
EdgeCrossing(p, q, plane) ==
    LET d1 == Dist2(p, plane)
        d2 == Dist2(q, plane)
    IN  [i \in 1..3 |-> (p[i] * d2 - q[i] * d1) \div (d2 - d1)]

CrossingVerts(plane) ==
    {EdgeCrossing(p, q, plane) :
        <<p, q>> \in {pq \in CubeEdges :
                        /\ Dist2(pq[1], plane) < 0
                        /\ Dist2(pq[2], plane) > 0}}

ClippedVerts(plane) ==
    {p \in Corners : Dist2(p, plane) >= 0} \cup CrossingVerts(plane)

\* the six faces of the cube: coordinate i fixed at s
CubeSides == {<<i, s>> : i \in 1..3, s \in {-1, 1}}

Polygons(verts) ==
    {poly \in {{p \in verts : p[side[1]] = side[2]} : side \in CubeSides} :
        Cardinality(poly) >= 3}

CapPolygon(plane) ==
    LET on == {p \in ClippedVerts(plane) : Dist2(p, plane) = 0}
    IN  IF CrossingVerts(plane) # {} /\ Cardinality(on) >= 3 THEN {on} ELSE {}

make_cube_clipped(plane) ==
    IF plane = None
    THEN [verts |-> Corners, faces |-> Polygons(Corners), cut |-> {}]
    ELSE [verts |-> ClippedVerts(plane[1]),
          faces |-> Polygons(ClippedVerts(plane[1])),
          cut   |-> CapPolygon(plane[1])]

-----------------------------------------------------------------------------
(* Clip-plane reconstruction: the arithmetic of set_clip_plane.            *)

\* view_plane / np.linalg.norm(view_plane[0:3])
NormalizePlane(view_plane) ==
    [i \in 1..4 |-> view_plane[i] \div Norm3(view_plane)]

\* the nested world2model(v) of set_clip_plane
world2model(v, anti) ==
    LET m_v == MatVec(cube_anti_model, VecMat(v, anti))
    IN  [i \in 1..4 |-> m_v[i] \div m_v[4]]

\* the nested sproject(a, b): scalar projection of a onto b
sproject(a, b) == Dot3(a, b) \div Norm3(b)

\* the model_plane that set_clip_plane hands to the clipper
ModelPlane(view_plane, anti) ==
    LET vp   == NormalizePlane(view_plane)
        w_p0 == <<0, 0, 0, 1>>
        w_p1 == <<vp[1], vp[2], vp[3], 1>>
        m_p0 == world2model(w_p0, anti)
        m_p1 == world2model(w_p1, anti)
        m_p3 == <<0, 0, 0, 1>>
        m_p4 == <<m_p1[1] - m_p0[1], m_p1[2] - m_p0[2], m_p1[3] - m_p0[3], 1>>
        D    == vp[4]
        diff == <<m_p3[1] - m_p0[1], m_p3[2] - m_p0[2], m_p3[3] - m_p0[3]>>
    IN  <<m_p4[1], m_p4[2], m_p4[3], D + sproject(diff, m_p4)>>

-----------------------------------------------------------------------------
(* Inputs the operations are tried with.                                   *)

\* (view, anti_view) pairs a camera controller supplies: the identity, and a
\* quarter turn about the y axis followed by a shift of one unit along z
ViewPairs ==
    { [view |-> Eye4, anti |-> Eye4],
      [view |-> << <<0, 0, 1, 0>>, <<0, 1, 0, 0>>, <<-1, 0, 0, 0>>, <<1, 0, 0, 1>> >>,
       anti |-> << <<0, 0, -1, 0>>, <<0, 1, 0, 0>>, <<1, 0, 0, 0>>, <<0, 0, 1, 1>> >>] }

\* the vol_view argument of the constructor
CtorViews == { Eye4 }

\* view-space planes (A,B,C,D) with axis-aligned normals
ViewPlanes == { <<0, 0, 1, 0>>, <<0, 0, -2, 2>> }

AllChannels == <<TRUE, TRUE, TRUE, TRUE>>

ColorMasks == { AllChannels, <<TRUE, FALSE, FALSE, TRUE>> }

Viewports == { <<0, 0, 2, 2>> }

PickPositions == { <<1, 1>> }

\* colors a fragment shader can produce: both shader families end with alpha = 1.0
FragColors == { <<0, 0, 0, 255>>, <<255, 51, 0, 255>> }

\* what the on_pick callback does with the renderer
OnPickBodies == { "None", "record", "cycle_mode" }

UniformNames == { "u_picked", "u_gain", "u_floorlvl" }

\* the uniforms of a program the model tracks: those above and three more
\* that VolumeProgram.__init__ sets
TrackedUniforms == UniformNames \cup { "u_numchannels", "u_data_texture", "u_entry_texture" }

\* values public set_uniform calls are tried with
UniformValues(name) ==
    IF name = "u_picked" THEN { <<Frac(1, 1), Frac(1, 1), Frac(1, 1), Frac(1, 1)>> }
    ELSE IF name = "u_gain" THEN { <<Frac(2, 1)>> }
    ELSE IF name = "u_floorlvl" THEN { <<Frac(1, 2)>> }
    ELSE IF name = "u_numchannels" THEN { <<Frac(1, 1)>> }
    ELSE IF name = "u_data_texture" THEN { <<"vol_texture">> }
    ELSE { <<"entry_texture">> }

\* contents an offscreen target can have before anything was rendered into it
UndefinedTexels == { <<0, 0, 0, 0>>, <<255, 255, 255, 255>> }

\* the tuple (0, 0, 0, 0) as a vec4 uniform value
ZeroSentinel == <<Frac(0, 1), Frac(0, 1), Frac(0, 1), Frac(0, 1)>>

\* (0, 0) + fbo_size with the default fbo_size
fbo_viewport == <<0, 0, 1024, 1024>>

-----------------------------------------------------------------------------
(* State groups.                                                           *)

config == <<nmodes, pick_glsl_index>>

geometry == <<cube_verts, volume_faces, slice_faces>>

uniforms == <<slicer_uniforms, caster_uniforms, uniform_changes>>

textures == <<entry_texture, exit_texture, pick_texture>>

frame == <<pc, call, glsl_index, pick_out, start_mode, log>>

history == <<last, cyc>>

NoCall ==
    [kind |-> "none", viewport |-> <<0, 0, 0, 0>>, color_mask |-> AllChannels,
     pick |-> None, on_pick |-> "None"]

NoRun == [dir |-> "none", start |-> 0, len |-> 0, fwd_pre |-> None, pair_pre |-> None]

\* no fragment shader invocation is in progress
NoFragment ==
    [pc |-> "idle", entry |-> <<0, 0, 0>>, exit |-> <<0, 0, 0>>, norm |-> "unit",
     r |-> <<0, 1>>, blend |-> "transparent", s |-> 0, cast |-> 0,
     col_acc |-> << <<0, 1>>, <<0, 1>>, <<0, 1>>, <<0, 1>> >>,
     samples |-> <<>>, acc_out |-> <<>>, frag_color |-> <<>>]

-----------------------------------------------------------------------------
(* Construction: VolumeRenderer.__init__.                                  *)

\* len(frag_glsl_dicts) after the default is filled in
CtorModes(frag_given, n) == IF frag_given THEN n ELSE DefaultModes

\* self.pick_glsl_index: the argument is dropped when the default dicts are used
CtorPickIndex(frag_given, pgi) == IF frag_given THEN pgi ELSE None

\* uniforms VolumeProgram.__init__ sets, of those the model tracks
ProgramUniforms(gain) ==
    [name \in TrackedUniforms |->
        IF name = "u_gain" THEN Some(<<gain>>)
        ELSE IF name = "u_numchannels" THEN Some(<<Frac(1, 1)>>)
        ELSE IF name = "u_data_texture" THEN Some(<<"vol_texture">>)
        ELSE IF name = "u_entry_texture" THEN Some(<<"entry_texture">>)
        ELSE None]

\* VolumeSliceProgram.__init__ hands gain=1.0 on, whatever its gain argument
SliceProgramUniforms(gain) == ProgramUniforms(Frac(1, 1))

RayCastProgramUniforms(gain) == ProgramUniforms(gain)

\* the GL context's raster state before the renderer has drawn anything
GlDefault ==
    [color_mask |-> AllChannels, clear_color |-> "transparent",
     viewport |-> <<0, 0, 2, 2>>, cull_mode |-> "back",
     blend |-> FALSE, depth_test |-> FALSE, cull_face |-> FALSE]

Init ==
    \E frag_given \in BOOLEAN, n \in 1..MaxModes, vol_view \in CtorViews,
       texel \in UndefinedTexels :
      \E pgi \in {None} \cup {Some(i) : i \in 0..(n - 1)} :
        /\ nmodes = CtorModes(frag_given, n)
        /\ pick_glsl_index = CtorPickIndex(frag_given, pgi)
        /\ color_mode = 0
        /\ anti_view = None
        /\ boundary_view = vol_view
        /\ cube_verts = make_cube_clipped(None).verts
        /\ volume_faces = make_cube_clipped(None).faces
        /\ slice_faces = make_cube_clipped(None).cut
        /\ slicer_uniforms =
             [i \in 0..(CtorModes(frag_given, n) - 1) |-> SliceProgramUniforms(Frac(1, 1))]
        /\ caster_uniforms =
             [i \in 0..(CtorModes(frag_given, n) - 1) |-> RayCastProgramUniforms(Frac(1, 1))]
        /\ uniform_changes = [name \in TrackedUniforms |-> None]
        /\ now = 0
        /\ gl = GlDefault
        /\ entry_texture = None
        /\ exit_texture = None
        /\ pick_texture = texel
        /\ pc = "idle"
        /\ call = NoCall
        /\ glsl_index = None
        /\ pick_out = None
        /\ start_mode = 0
        /\ log = <<>>
        /\ shader = NoFragment
        /\ last = [op |-> "__init__", args |-> <<>>, result |-> "ok"]
        /\ cyc = NoRun

-----------------------------------------------------------------------------
(* set_color_mode.                                                         *)

\* a set_color_mode whose reverse flag has no effect
set_color_mode_forward_only(cm, i, reverse, n) ==
    IF i = None
    THEN PyMod(cm + 1, n)
    ELSE PyMod(i[1], n)

\* the new self.color_mode; i is <<>> for None
set_color_mode(cm, i, reverse, n) ==
    IF i = None
    THEN PyMod(cm + (IF reverse THEN -1 ELSE 1), n)
    ELSE PyMod(i[1], n)

SetColorModeCore(i, reverse) ==
    /\ pc = "idle"
    /\ color_mode' = set_color_mode(color_mode, i, reverse, nmodes)
    /\ UNCHANGED <<config, shader, anti_view, boundary_view, geometry, uniforms, now, gl,
                   textures, frame>>

SetColorMode ==
    \E i \in {None} \cup {Some(k) : k \in (-ModeArgSpan)..ModeArgSpan},
       reverse \in BOOLEAN :
        /\ SetColorModeCore(i, reverse)
        /\ UNCHANGED history

-----------------------------------------------------------------------------
(* set_clip_plane and set_vol_view.                                        *)

\* how set_clip_plane ends: None has no [0:3] slice (line 538), and without
\* an inverse view matrix world2model cannot multiply (line 542)
ClipPlaneOutcome(view_plane, anti) ==
    IF view_plane = None THEN "raised"
    ELSE IF anti = None THEN "raised"
    ELSE "ok"

\* a set_clip_plane that takes a missing inverse view matrix for the identity
SetClipPlaneDefaultsView(view_plane) ==
    /\ pc = "idle"
    /\ IF view_plane # None
       THEN LET anti    == IF anti_view = None THEN Eye4 ELSE anti_view[1]
                clipped == make_cube_clipped(Some(ModelPlane(view_plane[1], anti)))
            IN  /\ cube_verts' = clipped.verts
                /\ volume_faces' = clipped.faces
                /\ slice_faces' = clipped.cut
       ELSE UNCHANGED geometry
    /\ UNCHANGED <<config, shader, color_mode, anti_view, boundary_view, uniforms, now, gl,
                   textures, frame>>

\* a set_clip_plane that replaces the vertex buffer and leaves the index buffers
SetClipPlaneVertsOnly(view_plane) ==
    /\ pc = "idle"
    /\ IF ClipPlaneOutcome(view_plane, anti_view) = "ok"
       THEN /\ cube_verts' =
                 make_cube_clipped(Some(ModelPlane(view_plane[1], anti_view[1]))).verts
            /\ UNCHANGED <<volume_faces, slice_faces>>
       ELSE UNCHANGED geometry
    /\ UNCHANGED <<config, shader, color_mode, anti_view, boundary_view, uniforms, now, gl,
                   textures, frame>>

SetClipPlaneCore(view_plane) ==
    /\ pc = "idle"
    /\ IF ClipPlaneOutcome(view_plane, anti_view) = "ok"
       THEN LET clipped == make_cube_clipped(Some(ModelPlane(view_plane[1], anti_view[1])))
            IN  /\ cube_verts' = clipped.verts
                /\ volume_faces' = clipped.faces
                /\ slice_faces' = clipped.cut
       ELSE UNCHANGED geometry
    /\ UNCHANGED <<config, shader, color_mode, anti_view, boundary_view, uniforms, now, gl,
                   textures, frame>>

SetVolViewCore(view, anti) ==
    /\ pc = "idle"
    /\ boundary_view' = view
    /\ anti_view' = Some(anti)
    /\ UNCHANGED <<config, shader, color_mode, geometry, uniforms, now, gl, textures, frame>>

-----------------------------------------------------------------------------
(* set_uniform.                                                            *)

\* value * k, component by component
ScaleValue(value, k) == [j \in DOMAIN value |-> FracMulInt(value[j], k)]

\* RecentUniforms.__setitem__
RecentSet(changes, name, value, t) == [changes EXCEPT ![name] = Some(<<value, t>>)]

\* a loop over the slice programs that hands every value on as it is
SlicersSetUnscaled(progs, name, value) ==
    [i \in DOMAIN progs |-> [progs[i] EXCEPT ![name] = Some(value)]]

\* the loop over self.prog_vol_slicers
SlicersSet(progs, name, value) ==
    [i \in DOMAIN progs |->
        [progs[i] EXCEPT ![name] =
            Some(IF name = "u_gain" THEN ScaleValue(value, SliceGainFactor) ELSE value)]]

\* the loop over self.prog_ray_casters
CastersSet(progs, name, value) ==
    [i \in DOMAIN progs |-> [progs[i] EXCEPT ![name] = Some(value)]]

\* the body of set_uniform, as the draw calls and the callers use it
set_uniform(name, value) ==
    /\ uniform_changes' = RecentSet(uniform_changes, name, value, now)
    /\ slicer_uniforms' = SlicersSet(slicer_uniforms, name, value)
    /\ caster_uniforms' = CastersSet(caster_uniforms, name, value)

SetUniformCore(name, value) ==
    /\ pc = "idle"
    /\ set_uniform(name, value)
    /\ UNCHANGED <<config, shader, color_mode, anti_view, boundary_view, geometry, now, gl,
                   textures, frame>>

SetUniform ==
    \E name \in UniformNames :
      \E value \in UniformValues(name) :
        /\ SetUniformCore(name, value)
        /\ UNCHANGED history

-----------------------------------------------------------------------------
(* The draw calls draw_volume and draw_slice, pass by pass.  The two       *)
(* methods differ in the index buffer they rasterize, in the exit pass     *)
(* (draw_volume only) and in the program family they render.               *)

DrawKinds == { "draw_volume", "draw_slice" }

\* self.prog_ray_casters in draw_volume, self.prog_vol_slicers in draw_slice
ProgramFamily(kind) == IF kind = "draw_volume" THEN "ray_caster" ELSE "slicer"

\* the uniforms of program idx of a family
ProgramOf(family, idx) ==
    IF family = "ray_caster" THEN caster_uniforms[idx] ELSE slicer_uniforms[idx]

\* a boundary pass that rasterizes the solid index buffer in both methods
BoundaryFacesAlwaysSolid(kind) == volume_faces

\* the index buffer handed to self.prog_boundary.draw
BoundaryFaces(kind) == IF kind = "draw_volume" THEN volume_faces ELSE slice_faces

\* an entry of the history of a draw call: a pass or a uniform update; val is
\* the u_picked the rendered program holds (<<>> when unset), the readback or
\* the value set; prev is the u_picked a reset replaces
Event(ev, family, idx, val, mask, prev) ==
    [ev |-> ev, fam |-> family, idx |-> idx, val |-> val, mask |-> mask, prev |-> prev]

\* the raster state every pass sets before it draws
PassState(mask, viewport, cull) ==
    [color_mask |-> mask, clear_color |-> "black", viewport |-> viewport,
     cull_mode |-> cull, blend |-> FALSE, depth_test |-> FALSE, cull_face |-> TRUE]

\* what a boundary pass leaves in its target
Rasterized(verts, faces, cull, mask) ==
    [verts |-> verts, faces |-> faces, cull |-> cull, mask |-> mask]

\* a texel after a masked clear and a masked write of frag
MaskedWrite(old, frag, mask) == [c \in 1..4 |-> IF mask[c] THEN frag[c] ELSE old[c]]

\* pickport = X-x, y-H-Y, W, H
PickPort(viewport, pick) ==
    <<viewport[1] - pick[1], pick[2] - viewport[4] - viewport[2], viewport[3], viewport[4]>>

\* a normalisation by the number of byte values instead of the largest one
NormalizeReadbackBy256(texel) == [c \in 1..4 |-> Frac(texel[c], ByteMax + 1)]

\* pick_out / 255.0
NormalizeReadback(texel) == [c \in 1..4 |-> Frac(texel[c], ByteMax)]

\* an entry of the method that leaves the color mask as the last call left it
DrawBeginKeepsMask(kind, viewport, color_mask, pick, on_pick) ==
    /\ pc = "idle"
    /\ call' = [kind |-> kind, viewport |-> viewport, color_mask |-> color_mask,
                pick |-> pick, on_pick |-> on_pick]
    /\ pc' = "entry"
    /\ start_mode' = color_mode
    /\ log' = <<>>
    /\ UNCHANGED <<config, shader, color_mode, anti_view, boundary_view, geometry, uniforms,
                   now, gl, textures, glsl_index, pick_out>>

\* entry of the method: gloo.set_color_mask(True, True, True, True)
DrawBeginCore(kind, viewport, color_mask, pick, on_pick) ==
    /\ pc = "idle"
    /\ call' = [kind |-> kind, viewport |-> viewport, color_mask |-> color_mask,
                pick |-> pick, on_pick |-> on_pick]
    /\ gl' = [gl EXCEPT !.color_mask = AllChannels]
    /\ pc' = "entry"
    /\ start_mode' = color_mode
    /\ log' = <<>>
    /\ UNCHANGED <<config, shader, color_mode, anti_view, boundary_view, geometry, uniforms,
                   now, textures, glsl_index, pick_out>>

DrawBegin ==
    \E kind \in DrawKinds, viewport \in Viewports, color_mask \in ColorMasks,
       pick \in {None} \cup {Some(xy) : xy \in PickPositions},
       on_pick \in OnPickBodies :
        /\ DrawBeginCore(kind, viewport, color_mask, pick, on_pick)
        /\ UNCHANGED history

\* an entry pass after which draw_slice too goes on to the exit pass
EntryPassThenExit ==
    /\ pc = "entry"
    /\ gl' = PassState(gl.color_mask, fbo_viewport, "back")
    /\ entry_texture' =
         Some(Rasterized(cube_verts, BoundaryFaces(call.kind), "back", gl.color_mask))
    /\ log' = Append(log, Event("entry_raster", "boundary", None, <<>>, gl.color_mask, None))
    /\ pc' = "exit"
    /\ UNCHANGED <<config, shader, color_mode, anti_view, boundary_view, geometry, uniforms,
                   now, exit_texture, pick_texture, call, glsl_index, pick_out,
                   start_mode>>

\* with self.fbo_entry: the ray entry map via front faces
EntryPassCore ==
    /\ pc = "entry"
    /\ gl' = PassState(gl.color_mask, fbo_viewport, "back")
    /\ entry_texture' =
         Some(Rasterized(cube_verts, BoundaryFaces(call.kind), "back", gl.color_mask))
    /\ log' = Append(log, Event("entry_raster", "boundary", None, <<>>, gl.color_mask, None))
    /\ pc' = IF call.kind = "draw_volume" THEN "exit" ELSE "branch"
    /\ UNCHANGED <<config, shader, color_mode, anti_view, boundary_view, geometry, uniforms,
                   now, exit_texture, pick_texture, call, glsl_index, pick_out,
                   start_mode>>

EntryPass == EntryPassCore /\ UNCHANGED history

\* with self.fbo_exit: the ray exit map via back faces (draw_volume only)
ExitPassCore ==
    /\ pc = "exit"
    /\ gl' = PassState(gl.color_mask, fbo_viewport, "front")
    /\ exit_texture' =
         Some(Rasterized(cube_verts, BoundaryFaces(call.kind), "front", gl.color_mask))
    /\ log' = Append(log, Event("exit_raster", "boundary", None, <<>>, gl.color_mask, None))
    /\ pc' = "branch"
    /\ UNCHANGED <<config, shader, color_mode, anti_view, boundary_view, geometry, uniforms,
                   now, entry_texture, pick_texture, call, glsl_index, pick_out,
                   start_mode>>

ExitPass == ExitPassCore /\ UNCHANGED history

\* a pick pass that ignores the configured pick_glsl_index
PickIndexIgnoresConfig(pgi, cm) == cm

\* the index the pick pass renders
PickIndex(pgi, cm) == IF pgi # None THEN pgi[1] ELSE cm

\* a pick branch that leaves u_picked as the last frame set it
PickResetKeepsPicked ==
    /\ pc = "branch"
    /\ call.pick # None
    /\ glsl_index' = Some(PickIndex(pick_glsl_index, color_mode))
    /\ log' = Append(log, Event("reset_picked", "", None, ZeroSentinel, gl.color_mask,
                                ProgramOf(ProgramFamily(call.kind),
                                          PickIndex(pick_glsl_index, color_mode))["u_picked"]))
    /\ pc' = "pick_pass"
    /\ UNCHANGED <<config, shader, color_mode, anti_view, boundary_view, geometry, uniforms, now,
                   gl, textures, call, pick_out, start_mode>>

\* if pick is not None: choose glsl_index and reset u_picked
PickResetCore ==
    /\ pc = "branch"
    /\ call.pick # None
    /\ glsl_index' = Some(PickIndex(pick_glsl_index, color_mode))
    /\ set_uniform("u_picked", ZeroSentinel)
    /\ log' = Append(log, Event("reset_picked", "", None, ZeroSentinel, gl.color_mask,
                                ProgramOf(ProgramFamily(call.kind),
                                          PickIndex(pick_glsl_index, color_mode))["u_picked"]))
    /\ pc' = "pick_pass"
    /\ UNCHANGED <<config, shader, color_mode, anti_view, boundary_view, geometry, now, gl,
                   textures, call, pick_out, start_mode>>

PickReset == PickResetCore /\ UNCHANGED history

\* with self.fbo_pick: render program glsl_index into the 1x1 target, read it back
PickPassCore(frag) ==
    /\ pc = "pick_pass"
    /\ gl' = PassState(call.color_mask, PickPort(call.viewport, call.pick[1]), "back")
    /\ pick_texture' = MaskedWrite(pick_texture, frag, call.color_mask)
    /\ pick_out' = Some(MaskedWrite(pick_texture, frag, call.color_mask))
    /\ log' = log \o
         << Event("pick_render", ProgramFamily(call.kind), glsl_index,
                  ProgramOf(ProgramFamily(call.kind), glsl_index[1])["u_picked"],
                  call.color_mask, None),
            Event("readback", "", None,
                  MaskedWrite(pick_texture, frag, call.color_mask), call.color_mask, None) >>
    /\ pc' = "pick_set"
    /\ UNCHANGED <<config, shader, color_mode, anti_view, boundary_view, geometry, uniforms,
                   now, entry_texture, exit_texture, call, glsl_index, start_mode>>

PickPass == \E frag \in FragColors : PickPassCore(frag) /\ UNCHANGED history

\* self.set_uniform('u_picked', pick_out / 255.0)
PickSetCore ==
    /\ pc = "pick_set"
    /\ set_uniform("u_picked", NormalizeReadback(pick_out[1]))
    /\ log' = Append(log, Event("set_picked", "", None,
                                NormalizeReadback(pick_out[1]), gl.color_mask, None))
    /\ pc' = "on_pick"
    /\ UNCHANGED <<config, shader, color_mode, anti_view, boundary_view, geometry, now, gl,
                   textures, call, glsl_index, pick_out, start_mode>>

PickSet == PickSetCore /\ UNCHANGED history

\* a callback that is handed the zero bytes of the reset instead of the readback
OnPickGetsSentinel ==
    /\ pc = "on_pick"
    /\ log' = IF call.on_pick = "None" THEN log
              ELSE Append(log, Event("on_pick", "", None, <<0, 0, 0, 0>>,
                                     gl.color_mask, None))
    /\ color_mode' = IF call.on_pick = "cycle_mode"
                     THEN set_color_mode(color_mode, None, FALSE, nmodes)
                     ELSE color_mode
    /\ pc' = "final"
    /\ UNCHANGED <<config, shader, anti_view, boundary_view, geometry, uniforms, now, gl,
                   textures, call, glsl_index, pick_out, start_mode>>

\* if on_pick is not None: on_pick(pick_out); the callback may use the renderer
OnPickCore ==
    /\ pc = "on_pick"
    /\ log' = IF call.on_pick = "None" THEN log
              ELSE Append(log, Event("on_pick", "", None, pick_out[1], gl.color_mask, None))
    /\ color_mode' = IF call.on_pick = "cycle_mode"
                     THEN set_color_mode(color_mode, None, FALSE, nmodes)
                     ELSE color_mode
    /\ pc' = "final"
    /\ UNCHANGED <<config, shader, anti_view, boundary_view, geometry, uniforms, now, gl,
                   textures, call, glsl_index, pick_out, start_mode>>

OnPick == OnPickCore /\ UNCHANGED history

\* else: pick_out = None and u_picked is reset
NoPickCore ==
    /\ pc = "branch"
    /\ call.pick = None
    /\ pick_out' = None
    /\ set_uniform("u_picked", ZeroSentinel)
    /\ log' = Append(log, Event("reset_picked", "", None, ZeroSentinel, gl.color_mask,
                                ProgramOf(ProgramFamily(call.kind), color_mode)["u_picked"]))
    /\ pc' = "final"
    /\ UNCHANGED <<config, shader, color_mode, anti_view, boundary_view, geometry, now, gl,
                   textures, call, glsl_index, start_mode>>

NoPick == NoPickCore /\ UNCHANGED history

\* the final full-viewport pass with the program of the current color mode
FinalPassCore ==
    /\ pc = "final"
    /\ gl' = PassState(call.color_mask, call.viewport, "back")
    /\ log' = Append(log, Event("final_render", ProgramFamily(call.kind), Some(color_mode),
                                ProgramOf(ProgramFamily(call.kind), color_mode)["u_picked"],
                                call.color_mask, None))
    /\ pc' = "return"
    /\ UNCHANGED <<config, shader, color_mode, anti_view, boundary_view, geometry, uniforms,
                   now, textures, call, glsl_index, pick_out, start_mode>>

FinalPass == FinalPassCore /\ UNCHANGED history

\* return pick_out
DrawReturnCore ==
    /\ pc = "return"
    /\ pc' = "idle"
    /\ call' = NoCall
    /\ glsl_index' = None
    /\ pick_out' = None
    /\ start_mode' = 0
    /\ log' = <<>>
    /\ UNCHANGED <<config, shader, color_mode, anti_view, boundary_view, geometry, uniforms,
                   now, gl, textures>>

DrawReturn == DrawReturnCore /\ UNCHANGED history

-----------------------------------------------------------------------------------------------------------------------------------------------------
(* The renderer drawing frames: draw calls interleaved with mode changes   *)
(* and uniform updates, the geometry as constructed.                       *)

Next ==
    \/ SetColorMode
    \/ SetUniform
    \/ DrawBegin
    \/ EntryPass
    \/ ExitPass
    \/ PickReset
    \/ PickPass
    \/ PickSet
    \/ OnPick
    \/ NoPick
    \/ FinalPass
    \/ DrawReturn

Spec == Init /\ [][Next]_vars

-----------------------------------------------------------------------------
(* The mode state machine alone, with the history of its calls.            *)

Called(op, args, result) == [op |-> op, args |-> args, result |-> result]

\* the run of direction dir after one more call from color mode cm
RunAfter(run, dir, cm, n) ==
    IF run.dir = dir /\ run.len < n
    THEN [run EXCEPT !.len = run.len + 1]
    ELSE [run EXCEPT !.dir = dir, !.start = cm, !.len = 1]

ModeSet ==
    \E k \in (-ModeArgSpan)..ModeArgSpan, reverse \in BOOLEAN :
        /\ SetColorModeCore(Some(k), reverse)
        /\ last' = Called("set_color_mode", <<Some(k), reverse>>, "ok")
        /\ cyc' = NoRun

ModeForward ==
    /\ SetColorModeCore(None, FALSE)
    /\ last' = Called("set_color_mode", <<None, FALSE>>, "ok")
    /\ cyc' = [RunAfter(cyc, "fwd", color_mode, nmodes) EXCEPT
                 !.fwd_pre = Some(color_mode), !.pair_pre = None]

ModeReverse ==
    /\ SetColorModeCore(None, TRUE)
    /\ last' = Called("set_color_mode", <<None, TRUE>>, "ok")
    /\ cyc' = [RunAfter(cyc, "rev", color_mode, nmodes) EXCEPT
                 !.fwd_pre = None, !.pair_pre = cyc.fwd_pre]

NextMode ==
    \/ ModeSet
    \/ ModeForward
    \/ ModeReverse

SpecMode == Init /\ [][NextMode]_vars

-----------------------------------------------------------------------------
(* Clip-plane and view updates, with the history of the calls.             *)

ClipSetClipPlane ==
    \E view_plane \in {None} \cup {Some(p) : p \in ViewPlanes} :
        /\ SetClipPlaneCore(view_plane)
        /\ last' = Called("set_clip_plane", <<view_plane>>,
                          ClipPlaneOutcome(view_plane, anti_view))
        /\ UNCHANGED cyc

ClipSetVolView ==
    \E pair \in ViewPairs :
        /\ SetVolViewCore(pair.view, pair.anti)
        /\ last' = Called("set_vol_view", <<>>, "ok")
        /\ UNCHANGED cyc

ClipSetColorMode ==
    \E reverse \in BOOLEAN :
        /\ SetColorModeCore(None, reverse)
        /\ last' = Called("set_color_mode", <<>>, "ok")
        /\ UNCHANGED cyc

ClipSetUniform ==
    \E name \in UniformNames :
      \E value \in UniformValues(name) :
        /\ SetUniformCore(name, value)
        /\ last' = Called("set_uniform", <<>>, "ok")
        /\ UNCHANGED cyc

NextClip ==
    \/ ClipSetClipPlane
    \/ ClipSetVolView
    \/ ClipSetColorMode
    \/ ClipSetUniform

SpecClip == Init /\ [][NextClip]_vars

-----------------------------------------------------------------------------
(* RecentUniforms: the cache self.uniform_changes read back over time.     *)

\* the order dict.items walks the keys in; the keys are the tracked uniforms
DictOrder ==
    <<"u_picked", "u_gain", "u_floorlvl", "u_numchannels", "u_data_texture",
      "u_entry_texture">>

\* L1: the keys present, in dict order
L1(changes) == SelectSeq(DictOrder, LAMBDA k : changes[k] # None)

\* age = (now - ts).total_seconds()
Age(changes, k, t) == t - changes[k][1][2]

\* a freshness test that already drops an entry at the age limit
FreshBelowLimit(changes, k, t) == Age(changes, k, t) < age_s

\* if age <= self.age_s
Fresh(changes, k, t) == Age(changes, k, t) <= age_s

\* L2 before the sort: (k, v, self.age_s - age) of the fresh entries
L2(changes, t) ==
    LET keep == SelectSeq(L1(changes), LAMBDA k : Fresh(changes, k, t))
    IN  [j \in DOMAIN keep |->
            <<keep[j], changes[keep[j]][1][1], age_s - Age(changes, keep[j], t)>>]

\* item put behind every element whose key is not larger (the sort is stable)
InsertByRemaining(sorted, item) ==
    LET n == Cardinality({j \in DOMAIN sorted : sorted[j][3] <= item[3]})
    IN  SubSeq(sorted, 1, n) \o <<item>> \o SubSeq(sorted, n + 1, Len(sorted))

RECURSIVE SortByRemaining(_)
\* L2.sort(key=lambda item: item[2])
SortByRemaining(items) ==
    IF items = <<>> THEN <<>>
    ELSE InsertByRemaining(SortByRemaining(SubSeq(items, 1, Len(items) - 1)),
                           items[Len(items)])

\* a purge that drops stale entries from the list only
PurgeKeepsMap(changes, t) == changes

\* del self[k] for every stale entry
Purge(changes, t) ==
    [k \in DOMAIN changes |->
        IF changes[k] # None /\ ~Fresh(changes, k, t) THEN None ELSE changes[k]]

\* RecentUniforms.__getitem__: dict.__getitem__(self, k)[0], or KeyError
getitem(changes, k) == IF changes[k] = None THEN "KeyError" ELSE changes[k][1][1]

\* the default-constructed renderer
InitCache ==
    /\ Init
    /\ nmodes = DefaultModes
    /\ pick_glsl_index = None
    /\ pick_texture = <<0, 0, 0, 0>>

CacheSetUniform ==
    \E name \in TrackedUniforms :
      \E value \in UniformValues(name) :
        /\ SetUniformCore(name, value)
        /\ last' = Called("set_uniform", <<name>>, "ok")
        /\ UNCHANGED cyc

\* datetime.datetime.now() moves on between two calls
ClockAdvance ==
    \E d \in ClockSteps :
        /\ pc = "idle"
        /\ now + d <= MaxClock
        /\ now' = now + d
        /\ last' = Called("clock", <<d>>, "ok")
        /\ UNCHANGED <<config, shader, color_mode, anti_view, boundary_view, geometry, uniforms,
                       gl, textures, frame, cyc>>

\* self.uniform_changes.items_aged()
ItemsAged ==
    /\ pc = "idle"
    /\ uniform_changes' = Purge(uniform_changes, now)
    /\ last' = Called("items_aged", <<>>, SortByRemaining(L2(uniform_changes, now)))
    /\ UNCHANGED <<config, shader, color_mode, anti_view, boundary_view, geometry,
                   slicer_uniforms, caster_uniforms, now, gl, textures, frame, cyc>>

\* self.uniform_changes[name]
CacheLookup ==
    \E name \in UniformNames :
        /\ pc = "idle"
        /\ last' = Called("__getitem__", <<name>>, getitem(uniform_changes, name))
        /\ UNCHANGED <<config, shader, color_mode, anti_view, boundary_view, geometry, uniforms,
                       now, gl, textures, frame, cyc>>

NextCache ==
    \/ CacheSetUniform
    \/ ClockAdvance
    \/ ItemsAged
    \/ CacheLookup

SpecCache == InitCache /\ [][NextCache]_vars

-----------------------------------------------------------------------------
(* The ray-cast fragment shader VolumeRayCastProgram.frag_shader: main()   *)
(* for one pixel.  Lengths are exact: a texel channel is a multiple of     *)
(* 1/TexGrid, the step has length 1/maxtexsize, and cast_len is kept as    *)
(* the number of steps it amounts to.                                      *)

FracAdd(a, b) == Frac(a[1] * b[2] + b[1] * a[2], a[2] * b[2])

FracSub(a, b) == Frac(a[1] * b[2] - b[1] * a[2], a[2] * b[2])

FracMul(a, b) == Frac(a[1] * b[1], a[2] * b[2])

FracLess(a, b) == a[1] * b[2] < b[1] * a[2]

FracMax(a, b) == IF FracLess(a, b) THEN b ELSE a

\* clamp(x, 0.0, 1.0)
Clamp01(x) ==
    IF FracLess(x, <<0, 1>>) THEN <<0, 1>>
    ELSE IF FracLess(<<1, 1>>, x) THEN <<1, 1>>
    ELSE x

\* the template's maxtexsize: maxtexsize * 2.0, the loop bound and the step divisor
LoopBound == 2 * maxtexsize

\* xyz of the texels the entry and exit maps can hold at a pixel, in 1/TexGrid
RayTexels ==
    { <<0, 0, 0>>, <<1, 0, 0>>, <<TexGrid, TexGrid, 0>>, <<TexGrid, TexGrid, TexGrid>> }

\* rand(entry.xyz): fract(...) is in [0, 1)
RandValues == { <<0, 1>>, <<1, 2>> }

\* col_smp after the repack, color transfer and alpha fragments: the default
\* alpha is clamp((r + g + b) / 2, 0, 0.75)
ShadedSamples ==
    { << <<0, 1>>, <<0, 1>>, <<0, 1>>, <<0, 1>> >>,
      << <<1, 2>>, <<0, 1>>, <<0, 1>>, <<1, 4>> >>,
      << <<1, 1>>, <<1, 1>>, <<1, 1>>, <<3, 4>> >> }

\* the blendstmt fragment: the three built-in ones and a caller's
\* "col_acc += 2.0 * col_smp;"
BlendStmts == { "transparent", "additive", "maxintensity", "custom" }

\* what normalize(exit - entry) is for a zero vector (undefined in GLSL):
\* NaN, the zero vector or some unit vector
DegenerateNorms == { "nan", "zero", "unit" }

\* the blend statement applied to the accumulator
Blend(stmt, acc, smp) ==
    [c \in 1..4 |->
        IF stmt = "transparent"
        THEN FracAdd(acc[c], FracMul(FracMul(FracSub(<<1, 1>>, acc[4]), smp[c]), smp[4]))
        ELSE IF stmt = "additive"
        THEN Clamp01(FracAdd(acc[c], FracMul(smp[c], <<1, 100>>)))
        ELSE IF stmt = "maxintensity"
        THEN FracMax(acc[c], smp[c])
        ELSE FracAdd(acc[c], FracMul(<<2, 1>>, smp[c]))]

\* the square of length(exit - entry), in units of 1/TexGrid
RayD2(sh) ==
    (sh.exit[1] - sh.entry[1]) * (sh.exit[1] - sh.entry[1])
    + (sh.exit[2] - sh.entry[2]) * (sh.exit[2] - sh.entry[2])
    + (sh.exit[3] - sh.entry[3]) * (sh.exit[3] - sh.entry[3])

\* a test against the whole ray length, without the step taken off ray_len
CastExceedsWholeRay(sh) ==
    IF sh.norm = "unit"
    THEN sh.cast * sh.cast * TexGrid * TexGrid > maxtexsize * maxtexsize * RayD2(sh)
    ELSE FALSE

\* cast_len > ray_len, with cast_len = cast * step_len and
\* ray_len = length(exit - entry) - step_len: (cast + 1) / maxtexsize exceeds
\* the ray length.  With a NaN or zero step the comparison is false.
CastExceeds(sh) ==
    IF sh.norm = "unit"
    THEN (sh.cast + 1) * (sh.cast + 1) * TexGrid * TexGrid
            > maxtexsize * maxtexsize * RayD2(sh)
    ELSE FALSE

\* col_acc.a > 1.0
AlphaExceeds(sh) == FracLess(<<1, 1>>, sh.col_acc[4])

\* a break test without the comparison of entry and exit
BreakSkipsDegenerate(sh) == CastExceeds(sh) \/ AlphaExceeds(sh)

\* a break test without the test of the accumulated alpha
BreakSkipsAlpha(sh) == CastExceeds(sh) \/ sh.entry = sh.exit

\* if (cast_len > ray_len || entry == exit || col_acc.a > 1.0) break;
Break(sh) == CastExceeds(sh) \/ sh.entry = sh.exit \/ AlphaExceeds(sh)

\* main() up to the loop: entry, exit, step, ray_len, texcoord, cast_len
FragMain ==
    \E entry \in RayTexels, exit \in RayTexels, r \in RandValues, blend \in BlendStmts,
       norm \in DegenerateNorms :
        /\ pc = "idle"
        /\ shader.pc \in {"idle", "done"}
        /\ entry # exit => norm = "unit"
        /\ shader' = [pc |-> "loop", entry |-> entry, exit |-> exit, norm |-> norm,
                      r |-> r, blend |-> blend, s |-> 0, cast |-> 1,
                      col_acc |-> << <<0, 1>>, <<0, 1>>, <<0, 1>>, <<0, 1>> >>,
                      samples |-> <<>>, acc_out |-> <<>>, frag_color |-> <<>>]
        /\ UNCHANGED <<config, color_mode, anti_view, boundary_view, geometry, uniforms,
                       now, gl, textures, frame, history>>

\* one iteration of the loop that does not break: sample, blend, advance
FragStep ==
    \E smp \in ShadedSamples :
        /\ shader.pc = "loop"
        /\ shader.s < LoopBound
        /\ ~Break(shader)
        /\ shader' = [shader EXCEPT
              !.samples = Append(@, Frac(shader.s * shader.r[2] + shader.r[1],
                                         shader.r[2] * maxtexsize)),
              !.col_acc = Blend(shader.blend, @, smp),
              !.s = @ + 1,
              !.cast = @ + 1]
        /\ UNCHANGED <<config, color_mode, anti_view, boundary_view, geometry, uniforms,
                       now, gl, textures, frame, history>>

\* the loop is left: col_acc.a = 1.0; gl_FragColor = col_acc
FragDone ==
    /\ shader.pc = "loop"
    /\ shader.s >= LoopBound \/ Break(shader)
    /\ shader' = [shader EXCEPT
          !.pc = "done",
          !.acc_out = Some(shader.col_acc),
          !.col_acc = [@ EXCEPT ![4] = <<1, 1>>],
          !.frag_color = Some([shader.col_acc EXCEPT ![4] = <<1, 1>>])]
    /\ UNCHANGED <<config, color_mode, anti_view, boundary_view, geometry, uniforms,
                   now, gl, textures, frame, history>>

NextRay ==
    \/ FragMain
    \/ FragStep
    \/ FragDone

SpecRay == InitCache /\ [][NextRay]_vars

-----------------------------------------------------------------------------
(* Properties of the draw calls (specification Spec).                      *)

EventsNamed(names) == SelectSeq(log, LAMBDA e : e.ev \in names)

EventNames(events) == [k \in DOMAIN events |-> events[k].ev]

IsPrefixOf(s, t) == Len(s) <= Len(t) /\ SubSeq(t, 1, Len(s)) = s

\* v is the byte vector texel divided by 255
IsNormalized(v, texel) ==
    /\ DOMAIN v = 1..4
    /\ \A c \in 1..4 : v[c][2] > 0 /\ v[c][1] * 255 = texel[c] * v[c][2]

ZeroVec4 == << <<0, 1>>, <<0, 1>>, <<0, 1>>, <<0, 1>> >>

AllPrograms == {<<f, i>> : f \in {"slicer", "ray_caster"}, i \in 0..(nmodes - 1)}

Picked(prog) == ProgramOf(prog[1], prog[2])["u_picked"]

\* C1: when draw_volume or draw_slice returns, u_picked of every slice and
\* every ray-cast program is (0,0,0,0) if the call had no pick position, and
\* is that call's pick readback divided by 255 if it had one.
C1_PickedAfterDraw ==
    pc = "return" =>
        \A prog \in AllPrograms :
            IF call.pick = None
            THEN Picked(prog) = Some(ZeroVec4)
            ELSE /\ Picked(prog) # None
                 /\ pick_out # None
                 /\ IsNormalized(Picked(prog)[1], pick_out[1])

\* a pick draw has returned a readback that is neither all zero nor all
\* one, in a renderer with three modes
C1_Witness ==
    /\ pc = "return"
    /\ call.pick # None
    /\ nmodes = 3
    /\ pick_out = Some(<<255, 51, 0, 255>>)
    /\ \A prog \in AllPrograms :
          Picked(prog) = Some(<< <<1, 1>>, <<1, 5>>, <<0, 1>>, <<1, 1>> >>)

PassEvents == {"entry_raster", "exit_raster", "pick_render", "readback", "final_render"}

\* the passes a draw call is to issue, in order
ExpectedPasses(kind, pick) ==
    <<"entry_raster">>
    \o (IF kind = "draw_volume" THEN <<"exit_raster">> ELSE <<>>)
    \o (IF pick # None THEN <<"pick_render", "readback">> ELSE <<>>)
    \o <<"final_render">>

\* C2: a draw call issues entry rasterization, exit rasterization
\* (draw_volume only), the pick pass with its readback (only with a pick
\* position) and the final pass, in this order, each once; the final pass
\* is the last one.
C2_PassOrder ==
    pc # "idle" =>
        /\ IsPrefixOf(EventNames(EventsNamed(PassEvents)), ExpectedPasses(call.kind, call.pick))
        /\ pc = "return" =>
              /\ EventNames(EventsNamed(PassEvents)) = ExpectedPasses(call.kind, call.pick)
              /\ log[Len(log)].ev = "final_render"

\* a draw_volume with a pick position has returned after its five passes
C2_Witness ==
    /\ pc = "return"
    /\ call.kind = "draw_volume"
    /\ call.pick # None
    /\ Len(EventsNamed(PassEvents)) = 5

ProtocolEvents ==
    {"reset_picked", "pick_render", "readback", "set_picked", "on_pick", "final_render"}

\* C3: in a draw call with a pick position u_picked is reset to zero, then
\* the pick pass renders (with u_picked = 0), then the texel is read back,
\* then u_picked is set to readback/255, then on_pick gets the raw readback,
\* then the final pass renders with u_picked = readback/255.
C3_PickProtocol ==
    (pc = "return" /\ call.pick # None) =>
        LET ev == EventsNamed(ProtocolEvents)
            n  == Len(ev)
        IN  /\ EventNames(ev) =
                 <<"reset_picked", "pick_render", "readback", "set_picked">>
                 \o (IF call.on_pick # "None" THEN <<"on_pick">> ELSE <<>>)
                 \o <<"final_render">>
            /\ ev[1].val = ZeroVec4
            /\ ev[2].val = Some(ZeroVec4)
            /\ ev[3].val = pick_out[1]
            /\ IsNormalized(ev[4].val, ev[3].val)
            /\ call.on_pick # "None" => ev[5].val = ev[3].val
            /\ ev[n].val # None /\ IsNormalized(ev[n].val[1], ev[3].val)

\* a pick draw with a callback has returned, the frame before had left
\* u_picked non-zero, and the readback is non-zero
C3_Witness ==
    /\ pc = "return"
    /\ call.pick # None
    /\ call.on_pick # "None"
    /\ \E k \in DOMAIN log :
          /\ log[k].ev = "reset_picked"
          /\ log[k].prev # None
          /\ log[k].prev # Some(ZeroVec4)
    /\ pick_out = Some(<<255, 51, 0, 255>>)

PickRender == EventsNamed({"pick_render"})[1]

FinalRender == EventsNamed({"final_render"})[1]

C5_RasterStateReset ==
    pc = "return" =>
        /\ gl.color_mask = <<TRUE, TRUE, TRUE, TRUE>>
        /\ gl.clear_color = "black"
        /\ gl.cull_mode = "back"
        /\ ~gl.blend
        /\ ~gl.depth_test

\* C8: every pass of a draw call that selects its program by color mode
\* uses the mode index current when the call began, also when on_pick calls
\* set_color_mode.
C8_NoMidFrameSwitch ==
    pc = "return" =>
        /\ FinalRender.idx = Some(start_mode)
        /\ (call.pick # None /\ pick_glsl_index = None) => PickRender.idx = Some(start_mode)

-----------------------------------------------------------------------------
(* Properties of the mode state machine (specification SpecMode).          *)

\* C6: with N modes, N calls of set_color_mode(None) return the mode index
\* to where it started, and so do N calls with reverse=True; one reverse
\* call from index 0 gives N-1; a forward call followed by a reverse call
\* gives the index back.
C6_ModeCycling ==
    /\ (cyc.dir \in {"fwd", "rev"} /\ cyc.len = nmodes) => color_mode = cyc.start
    /\ (cyc.dir = "rev" /\ cyc.len = 1 /\ cyc.start = 0) => color_mode = nmodes - 1
    /\ cyc.pair_pre # None => color_mode = cyc.pair_pre[1]

\* three forward calls in a renderer with three modes, started at index 1
C6_Witness ==
    /\ nmodes = 3
    /\ cyc.dir = "fwd"
    /\ cyc.len = 3
    /\ cyc.start = 1
    /\ color_mode = 1

\* C7: set_color_mode(i) ends without error for every integer i and leaves
\* the mode index at i mod N; the index is 0 after construction and always
\* satisfies 0 <= color_mode < N.
C7_ModeIndexWraps ==
    /\ 0 <= color_mode /\ color_mode < nmodes
    /\ last.op = "__init__" => color_mode = 0
    /\ (last.op = "set_color_mode" /\ last.args[1] # None) =>
          /\ last.result = "ok"
          /\ \E q \in (-ModeArgSpan - 1)..(ModeArgSpan + 1) :
                last.args[1][1] = q * nmodes + color_mode

\* set_color_mode(5) with three modes has given index 2
C7_Witness ==
    /\ nmodes = 3
    /\ last.op = "set_color_mode"
    /\ last.args[1] = Some(5)
    /\ color_mode = 2

-----------------------------------------------------------------------------
(* Properties of the clip-plane updates (specification SpecClip).          *)

Unclipped == make_cube_clipped(None)

\* C9: set_clip_plane(None) ends without error and leaves the three
\* buffers holding the unclipped cube.
C9_NoneRestoresCube ==
    (last.op = "set_clip_plane" /\ last.args[1] = None) =>
        /\ last.result = "ok"
        /\ cube_verts = Unclipped.verts
        /\ volume_faces = Unclipped.faces
        /\ slice_faces = Unclipped.cut

\* C10: a set_clip_plane call with a plane made while anti_view is None
\* fails and leaves the buffers, the color mode and the uniforms as they
\* were; made after set_vol_view it ends without error and the three buffers
\* hold one clipper result, for a unit axis-aligned plane in model space.
C10_ClipNeedsView ==
    [][ (last'.op = "set_clip_plane" /\ last'.args[1] # None) =>
            IF anti_view = None
            THEN /\ last'.result = "raised"
                 /\ UNCHANGED <<geometry, color_mode, uniforms, anti_view>>
            ELSE /\ last'.result = "ok"
                 /\ \E mp \in {-1, 0, 1} \X {-1, 0, 1} \X {-1, 0, 1} \X {-1, 0, 1} :
                       /\ Dot3(mp, mp) = 1
                       /\ cube_verts' = make_cube_clipped(Some(mp)).verts
                       /\ volume_faces' = make_cube_clipped(Some(mp)).faces
                       /\ slice_faces' = make_cube_clipped(Some(mp)).cut
                 /\ UNCHANGED <<color_mode, uniforms, anti_view>> ]_vars

\* a plane was refused because no view was set, in a renderer whose color
\* mode and uniforms had been changed before
C10_Witness ==
    /\ last.op = "set_clip_plane"
    /\ last.args[1] = Some(<<0, 0, 1, 0>>)
    /\ last.result = "raised"
    /\ anti_view = None
    /\ color_mode # 0
    /\ uniform_changes["u_gain"] # None

-----------------------------------------------------------------------------
(* Properties of set_uniform and of what the draw calls return.            *)

\* what a program of a family holds for name once value was set
HeldValue(family, name, value) ==
    IF family = "slicer" /\ name = "u_gain"
    THEN Some(ScaleValue(value, SliceGainFactor))
    ELSE Some(value)

\* C11: a step that sets a uniform name to a value leaves the cache mapping
\* name to that value with the current time, every ray-cast program holding
\* the value and every slice program holding it too (four times it for
\* u_gain), whatever the current mode; and the program a pick or final pass
\* renders, of whatever mode, holds every cached value.
C11_UniformBroadcast ==
    [][ /\ \A name \in UniformNames :
              (\/ uniform_changes'[name] # uniform_changes[name]
               \/ \E i \in 0..(nmodes - 1) :
                     \/ caster_uniforms'[i][name] # caster_uniforms[i][name]
                     \/ slicer_uniforms'[i][name] # slicer_uniforms[i][name])
              => /\ uniform_changes'[name] # None
                 /\ uniform_changes'[name][1][2] = now
                 /\ \A i \in 0..(nmodes - 1) :
                       /\ caster_uniforms'[i][name] =
                            HeldValue("ray_caster", name, uniform_changes'[name][1][1])
                       /\ slicer_uniforms'[i][name] =
                            HeldValue("slicer", name, uniform_changes'[name][1][1])
        /\ (Len(log') = Len(log) + 1 /\ log'[Len(log')].ev = "final_render")
              => \A name \in UniformNames :
                    uniform_changes[name] # None =>
                       ProgramOf(log'[Len(log')].fam, log'[Len(log')].idx[1])[name] =
                          HeldValue(log'[Len(log')].fam, name, uniform_changes[name][1][1])
      ]_vars

\* a draw_slice has rendered its final pass in a mode other than the one
\* the renderer started in, with a gain of 2 set and in effect as 8
C11_Witness ==
    /\ pc = "return"
    /\ call.kind = "draw_slice"
    /\ color_mode # 0
    /\ log[Len(log)].ev = "final_render"
    /\ log[Len(log)].idx = Some(color_mode)
    /\ uniform_changes["u_gain"] = Some(<< <<Frac(2, 1)>>, 0 >>)
    /\ slicer_uniforms[color_mode]["u_gain"] = Some(<<Frac(8, 1)>>)
    /\ caster_uniforms[color_mode]["u_gain"] = Some(<<Frac(2, 1)>>)

\* C12: when a draw call is about to return (return pick_out), pick_out is
\* the raw byte readback of its pick pass if a pick position was given and
\* None otherwise; the callback was invoked exactly once, with that same
\* raw readback, if both a pick position and a callback were given, and
\* not at all otherwise; at no point of a call was it invoked twice.
C12_ReturnAndCallback ==
    /\ Len(EventsNamed({"on_pick"})) <= 1
    /\ call.pick = None => EventsNamed({"on_pick"}) = <<>>
    /\ pc = "return" =>
          /\ (call.pick = None) <=> (pick_out = None)
          /\ call.pick # None =>
                /\ Len(EventsNamed({"readback"})) = 1
                /\ pick_out[1] = EventsNamed({"readback"})[1].val
                /\ \A c \in 1..4 : pick_out[1][c] \in 0..ByteMax
          /\ IF call.pick # None /\ call.on_pick # "None"
             THEN /\ Len(EventsNamed({"on_pick"})) = 1
                  /\ EventsNamed({"on_pick"})[1].val = pick_out[1]
             ELSE EventsNamed({"on_pick"}) = <<>>

\* a draw_volume with a pick position and a callback is about to return the
\* readback (255, 51, 0, 255) it handed to the callback
C12_Witness ==
    /\ pc = "return"
    /\ call.kind = "draw_volume"
    /\ call.pick # None
    /\ call.on_pick = "record"
    /\ pick_out = Some(<<255, 51, 0, 255>>)
    /\ EventsNamed({"on_pick"}) # <<>>
    /\ EventsNamed({"on_pick"})[1].val = <<255, 51, 0, 255>>

-----------------------------------------------------------------------------
(* Properties of the cache of recent uniforms (specification SpecCache).   *)

Cached(changes) == {k \in DOMAIN changes : changes[k] # None}

Stale(changes, t) == {k \in Cached(changes) : t - changes[k][1][2] > age_s}

Keys(items) == {items[j][1] : j \in DOMAIN items}

\* C13: when items_aged() is called, an entry whose age exceeds age_s is
\* absent from the returned list and removed from the map; a lookup of an
\* absent key fails with KeyError, and an absent key becomes present again
\* only by a write of that key.
C13_AutoPurge ==
    [][ /\ last'.op = "items_aged" =>
              \A k \in Stale(uniform_changes, now) :
                  /\ k \notin Keys(last'.result)
                  /\ uniform_changes'[k] = None
                  /\ getitem(uniform_changes', k) = "KeyError"
        /\ last'.op = "__getitem__" =>
              (uniform_changes'[last'.args[1]] = None <=> last'.result = "KeyError")
        /\ \A k \in TrackedUniforms :
              (uniform_changes[k] = None /\ uniform_changes'[k] # None)
                 => last'.op = "set_uniform" /\ last'.args = <<k>>
      ]_vars

\* the gain was set, aged beyond age_s and was purged by items_aged(), and
\* a lookup of it has failed afterwards, while a younger entry still is cached
C13_Witness ==
    /\ last.op = "__getitem__"
    /\ last.args = <<"u_gain">>
    /\ last.result = "KeyError"
    /\ caster_uniforms[0]["u_gain"] = Some(<<Frac(2, 1)>>)
    /\ uniform_changes["u_gain"] = None
    /\ uniform_changes["u_floorlvl"] # None
    /\ now - uniform_changes["u_floorlvl"][1][2] > 0

\* C14: the cache of recent uniforms never holds more than limit entries.
C14_CacheBounded == Cardinality(Cached(uniform_changes)) <= limit

\* C20: items_aged() returns exactly the entries whose age is at most
\* age_s, each once as (key, value, age_s - age), in ascending order of the
\* seconds remaining; it leaves every such entry in the map as it was; and
\* a write of a key leaves the key with age zero.
C20_ItemsAged ==
    [][ /\ last'.op = "items_aged" =>
              LET items == last'.result
                  fresh == Cached(uniform_changes) \ Stale(uniform_changes, now)
              IN  /\ Keys(items) = fresh
                  /\ Len(items) = Cardinality(fresh)
                  /\ \A j \in DOMAIN items :
                        /\ items[j][2] = uniform_changes[items[j][1]][1][1]
                        /\ items[j][3] = age_s - (now - uniform_changes[items[j][1]][1][2])
                        /\ items[j][3] \in 0..age_s
                  /\ \A i, j \in DOMAIN items : i < j => items[i][3] <= items[j][3]
                  /\ \A k \in fresh : uniform_changes'[k] = uniform_changes[k]
        /\ last'.op = "set_uniform" =>
              /\ uniform_changes'[last'.args[1]] # None
              /\ now' - uniform_changes'[last'.args[1]][1][2] = 0
      ]_vars

\* items_aged() has returned three entries: one exactly age_s old, with no
\* time left, ahead of a younger one and of one rewritten just now
C20_Witness ==
    /\ last.op = "items_aged"
    /\ Len(last.result) = 3
    /\ last.result[1][3] = 0
    /\ last.result[2][3] \in 1..(age_s - 1)
    /\ last.result[3][3] = age_s

-----------------------------------------------------------------------------
(* Properties of the ray-cast loop (specification SpecRay).                *)

\* C15: the loop takes at most 2 * maxtexsize sampling steps for every ray
\* and every blend statement: each step counts s up by one below the bound
\* until the loop is left; and no sampling step is taken once the
\* accumulated distance exceeds the ray length or the accumulated alpha
\* exceeds 1.0.
C15_MarchBounded ==
    [][ /\ shader'.s <= LoopBound
        /\ Len(shader'.samples) <= LoopBound
        /\ shader.pc = "loop" =>
              \/ shader'.pc = "done" /\ shader'.samples = shader.samples
              \/ /\ shader'.pc = "loop"
                 /\ shader'.s = shader.s + 1
                 /\ Len(shader'.samples) = Len(shader.samples) + 1
                 /\ shader.s < LoopBound
                 /\ ~CastExceeds(shader)
                 /\ ~AlphaExceeds(shader)
      ]_vars

\* a ray long enough for two steps was left after one, with the
\* accumulated alpha above 1.0
C15_Witness ==
    /\ shader.pc = "done"
    /\ Len(shader.samples) = 1
    /\ FracLess(<<1, 1>>, shader.acc_out[1][4])
    /\ ~CastExceeds(shader)

\* C16: for a ray whose entry equals its exit the loop takes no step: no
\* sample is taken, no blend runs, and the accumulator is (0,0,0,0) when
\* the loop is left, whatever normalize yields for the zero vector.
C16_DegenerateRay ==
    (shader.pc # "idle" /\ shader.entry = shader.exit) =>
        /\ shader.samples = <<>>
        /\ shader.s = 0
        /\ shader.pc = "loop" => shader.col_acc = ZeroVec4
        /\ shader.pc = "done" =>
              /\ shader.acc_out = Some(ZeroVec4)
              /\ shader.frag_color = Some(<< <<0, 1>>, <<0, 1>>, <<0, 1>>, <<1, 1>> >>)

\* a degenerate ray whose step is NaN has left the loop
C16_Witness ==
    /\ shader.pc = "done"
    /\ shader.entry = shader.exit
    /\ shader.norm = "nan"
    /\ shader.blend = "custom"
    /\ shader.acc_out = Some(ZeroVec4)

-----------------------------------------------------------------------------
(* Properties of the clipped geometry (specification SpecClip).            *)

\* set_clip_plane((0,0,1,0)) has just ended normally under identity view matrices
ClippedAtOrigin ==
    /\ last.op = "set_clip_plane"
    /\ last.args = <<Some(<<0, 0, 1, 0>>)>>
    /\ last.result = "ok"
    /\ anti_view = Some(Eye4)
    /\ boundary_view = Eye4

\* C17 as stated: with identity view matrices set_clip_plane((0,0,1,0))
\* hands the clipper a plane whose non-negative half-space is z >= 0 in
\* model space, and the clipped cube has only vertices with z >= 0.
C17_KeepsUpperHalf ==
    ClippedAtOrigin =>
        /\ \A p \in Corners :
              Dist2(p, ModelPlane(<<0, 0, 1, 0>>, Eye4)) >= 0 <=> p[3] >= 0
        /\ \A v \in cube_verts : v[3] >= 0

\* C17, amended: with identity view matrices set_clip_plane((0,0,1,0))
\* hands the clipper the plane (0,0,-1,0), whose non-negative half-space
\* is z <= 0 in model space (the model is turned half around the x axis),
\* and the clipped cube has only vertices with z <= 0, the four corners
\* with z < 0 among them.
C17_KeepsTurnedHalf ==
    ClippedAtOrigin =>
        /\ ModelPlane(<<0, 0, 1, 0>>, Eye4) = <<0, 0, -1, 0>>
        /\ \A p \in Corners :
              Dist2(p, ModelPlane(<<0, 0, 1, 0>>, Eye4)) >= 0 <=> p[3] <= 0
        /\ \A v \in cube_verts : v[3] <= 0
        /\ {p \in Corners : p[3] < 0} \subseteq cube_verts

\* the plane through the origin was set under identity view matrices and
\* the cube was cut: four corners were dropped and a cap was made
C17_Witness ==
    /\ ClippedAtOrigin
    /\ Cardinality(cube_verts \cap Corners) = 4
    /\ slice_faces # {}

\* the model-space planes with an axis-aligned unit normal the clipper is
\* handed, and no plane at all
ClipperPlanes ==
    {None} \cup
    {Some(mp) : mp \in {q \in {-1, 0, 1} \X {-1, 0, 1} \X {-1, 0, 1} \X {-1, 0, 1} :
                            Dot3(q, q) = 1}}

\* the three buffers hold the three parts of one result of the clipper
OneClipperResult ==
    \E plane \in ClipperPlanes :
        LET clipped == make_cube_clipped(plane)
        IN  /\ cube_verts = clipped.verts
            /\ volume_faces = clipped.faces
            /\ slice_faces = clipped.cut

\* C19: after construction the vertex buffer, the solid index buffer and
\* the cap index buffer are the three parts of one make_cube_clipped
\* result, and so they are after every step that changes any of them; a
\* set_clip_plane call, successful or failed, changes nothing but the
\* three buffers.
C19_WholeBufferReplace ==
    [][ /\ last.op = "__init__" => OneClipperResult
        /\ geometry' # geometry => OneClipperResult'
        /\ last'.op = "set_clip_plane" =>
              UNCHANGED <<config, color_mode, uniforms, anti_view, boundary_view,
                          textures, gl, frame>>
      ]_vars

\* a set_clip_plane call has failed after an earlier one had cut the cube:
\* the buffers still hold the cut cube, cap included
C19_Witness ==
    /\ last.op = "set_clip_plane"
    /\ last.result = "raised"
    /\ anti_view # None
    /\ cube_verts # Corners
    /\ slice_faces # {}
    /\ OneClipperResult

-----------------------------------------------------------------------------
(* Properties of the boundary passes (specification Spec).                 *)

\* C18: the entry map is written by the entry pass only, from the cap
\* index buffer in draw_slice and from the solid index buffer in
\* draw_volume; the exit map is written by the exit pass of draw_volume
\* only, from the solid index buffer, and no step of a draw_slice call
\* changes it, so it holds what the last draw_volume wrote.
C18_SliceEntryOnly ==
    [][ /\ entry_texture' # entry_texture =>
              /\ pc = "entry"
              /\ entry_texture'[1].verts = cube_verts
              /\ entry_texture'[1].faces =
                    (IF call.kind = "draw_slice" THEN slice_faces ELSE volume_faces)
        /\ exit_texture' # exit_texture =>
              /\ pc = "exit"
              /\ call.kind = "draw_volume"
              /\ exit_texture'[1].verts = cube_verts
              /\ exit_texture'[1].faces = volume_faces
        /\ (call.kind = "draw_slice" \/ call'.kind = "draw_slice") =>
              exit_texture' = exit_texture
        /\ (pc = "entry" /\ call.kind = "draw_slice") => pc' = "branch"
        /\ (pc = "entry" /\ call.kind = "draw_volume") => pc' = "exit"
      ]_vars

\* a draw_slice is about to return: the entry map holds the cap, the exit
\* map still holds the solid an earlier draw_volume rasterized
C18_Witness ==
    /\ pc = "return"
    /\ call.kind = "draw_slice"
    /\ entry_texture # None
    /\ entry_texture[1].faces = slice_faces
    /\ exit_texture # None
    /\ exit_texture[1].faces = volume_faces
    /\ volume_faces # slice_faces

\* C21: the entry and exit passes run with all four color channels
\* writable, whatever color_mask this or an earlier draw call was given:
\* the maps are written unmasked; the caller's color_mask is the mask of
\* the pick pass and of the final pass of its own call, and of no other pass.
C21_BoundaryUnmasked ==
    /\ pc \in {"entry", "exit"} => gl.color_mask = AllChannels
    /\ entry_texture # None => entry_texture[1].mask = AllChannels
    /\ exit_texture # None => exit_texture[1].mask = AllChannels
    /\ \A j \in DOMAIN log :
          /\ log[j].ev \in {"entry_raster", "exit_raster"} => log[j].mask = AllChannels
          /\ log[j].ev \in {"pick_render", "final_render"} => log[j].mask = call.color_mask

\* a draw_volume given a restrictive color_mask is about to return, after
\* an earlier pick pass had written the pick target through such a mask:
\* both maps were rasterized unmasked, the final pass masked
C21_Witness ==
    /\ pc = "return"
    /\ call.kind = "draw_volume"
    /\ call.pick = None
    /\ call.color_mask = <<TRUE, FALSE, FALSE, TRUE>>
    /\ pick_texture = <<0, 255, 255, 255>>
    /\ gl.color_mask = <<TRUE, FALSE, FALSE, TRUE>>
    /\ Len(EventsNamed({"entry_raster", "exit_raster"})) = 2
    /\ entry_texture[1].mask = AllChannels
    /\ exit_texture[1].mask = AllChannels

\* C22: with step length 1/maxtexsize, jitter r and ray length L, the
\* k-th iteration the loop executes (k = 0, 1, ...) samples at distance
\* (k + r)/maxtexsize from entry along the ray, and it executes only if
\* (k + 2)/maxtexsize <= L; so every sample lies at a distance below L,
\* short of the exit point, and a ray shorter than two steps takes no sample.
C22_SamplesInsideRay ==
    shader.pc # "idle" =>
        /\ \A j \in DOMAIN shader.samples :
              /\ shader.samples[j] =
                    Frac((j - 1) * shader.r[2] + shader.r[1], shader.r[2] * maxtexsize)
              /\ (j + 1) * (j + 1) * TexGrid * TexGrid
                    <= maxtexsize * maxtexsize * RayD2(shader)
              /\ shader.samples[j][1] >= 0
              /\ shader.samples[j][1] * shader.samples[j][1] * TexGrid * TexGrid
                    < shader.samples[j][2] * shader.samples[j][2] * RayD2(shader)
        /\ 4 * TexGrid * TexGrid > maxtexsize * maxtexsize * RayD2(shader)
              => shader.samples = <<>>

\* a ray along the diagonal of the volume, jittered by half a step, has
\* been sampled twice: half a step and one and a half steps from entry
C22_Witness ==
    /\ shader.pc = "done"
    /\ shader.entry = <<0, 0, 0>>
    /\ shader.exit = <<TexGrid, TexGrid, TexGrid>>
    /\ shader.r = <<1, 2>>
    /\ Len(shader.samples) >= 2
    /\ shader.samples[1] = Frac(1, 2 * maxtexsize)
    /\ shader.samples[2] = Frac(3, 2 * maxtexsize)

====
